---- MODULE Spec2Model ----
(***************************************************************************)
(* A model of cflag: a tree of Command nodes layered on pflag flag sets,   *)
(* the registration operations (AddCommand, Cmd, Lookup, ...) and the      *)
(* Parse loop that walks the tree along a token stream.                    *)
(***************************************************************************)
EXTENDS Integers, Sequences, FiniteSets, TLC

(***************************************************************************)
(* Bounds of the model.                                                    *)
(***************************************************************************)
\* Commands that can be allocated besides the global register (id 0).
MaxNodes == 2
\* Tokens after the first one in an enumerated token stream.
MaxArgs == 2
\* Attribute-setting calls (SetDescription, Mark*, SetOutput, ...) per run.
MaxAttrOps == 1
\* Length of the parse chain (only a cyclic command structure exceeds it).
MaxChain == 6
\* Callbacks registered per run.
MaxCallbacks == 2

(***************************************************************************)
(* Values.                                                                 *)
(***************************************************************************)
\* The nil *Command.
Nil == -1
\* The global register, `var command Command`.
Global == 0
Ids == 0..MaxNodes
\* The elements of a sequence, and the first index of an element (0: none).
Range(s) == {s[i] : i \in 1..Len(s)}
FirstIndexOf(s, x) ==
    IF x \in Range(s) THEN CHOOSE i \in 1..Len(s) : s[i] = x /\ \A j \in 1..(i - 1) : s[j] # x
    ELSE 0
\* The exit status while os.Exit has not been called.
NoExit == -1
\* Command names handed to NewCommand / Cmd ("" is the top-level name).
CmdNames == {"foo", "bar"}
\* The int flags of the tests: test0 (root), test1 (foo), test2 (foo/bar).
FlagNames == {"test0", "test1", "test2"}
\* io.Writer values; "nil" is the nil writer.
Stderr == "os.Stderr"
Writers == {"W"}

\* The usage string registered with a name (as in the tests: "Foo command.").
UsageOf(name) ==
    CASE name = "foo" -> "Foo command."
      [] name = "bar" -> "Bar command."
      [] OTHER -> "Test."

\* The default value each test flag is defined with (test1 defaults to 1).
DefaultOf(f) ==
    CASE f = "test0" -> 0
      [] f = "test1" -> 1
      [] f = "test2" -> 2
      [] OTHER -> 0

(***************************************************************************)
(* pflag.FlagSet, as far as cflag uses it.  A flag set is a record; the    *)
(* nil *FlagSet is the record with nil = TRUE.                             *)
(***************************************************************************)
NoFlags ==
    [nil |-> TRUE, errorHandling |-> "", unknownFlags |-> FALSE,
     defined |-> {}, val |-> [f \in FlagNames |-> 0],
     helpDefined |-> FALSE, help |-> FALSE]

\* pflag.NewFlagSet: an empty set with the given error handling.
PflagNewFlagSet(errorHandling) ==
    [NoFlags EXCEPT !.nil = FALSE, !.errorHandling = errorHandling]

NewFlagSetStrict(errorHandling) == PflagNewFlagSet(errorHandling)

\* cflag.NewFlagSet: pflag.NewFlagSet with ParseErrorsWhitelist.UnknownFlags.
NewFlagSet(errorHandling) ==
    [PflagNewFlagSet(errorHandling) EXCEPT !.unknownFlags = TRUE]

\* flagSet.Int(name, value, usage): define an int flag with a default.
DefineInt(fs, f, value) ==
    [fs EXCEPT !.defined = @ \cup {f}, !.val[f] = value]

\* flagSet.BoolP("help", "h", false, "Display help.")
DefineHelp(fs) == [fs EXCEPT !.helpDefined = TRUE, !.help = FALSE]

\* flagSet.GetBool("help"): err # nil iff the flag is not defined.
GetBoolHelp(fs) == [value |-> fs.helpDefined /\ fs.help, err |-> ~fs.helpDefined]

ErrorHandlings == {"ContinueOnError", "ExitOnError"}

\* The flag sets a caller hands to NewCommand, Cmd and Parse.
\* (An empty flag set cannot fail, so its error handling is never used.)
FlagSetInputs ==
    {NoFlags, NewFlagSet("ExitOnError")}
    \cup {DefineInt(NewFlagSet(eh), f, DefaultOf(f)) :
              eh \in ErrorHandlings, f \in {"test1"}}

(***************************************************************************)
(* Tokens.  TLC cannot index strings, so the lexical class of each token   *)
(* pflag looks at (s[0] = '-', s[1] = '-', the name after the dashes) is   *)
(* tabulated.                                                              *)
(***************************************************************************)
Tokens == {"foo", "bar", "--test1", "11", "--help"}
\* First tokens: the program path, or the name of a command parsed standalone.
Heads == {"prog", "foo"}

IsFlagToken(s) == s \in {"--test0", "--test1", "--test2", "--help", "-h"}
IsLong(s) == s \in {"--test0", "--test1", "--test2", "--help"}
LongName(s) ==
    CASE s = "--test0" -> "test0"
      [] s = "--test1" -> "test1"
      [] s = "--test2" -> "test2"
      [] s = "--help" -> "help"
      [] OTHER -> ""

\* strconv.ParseInt on a value token.
IsInt(s) == s \in {"10", "11", "12", "13"}
Atoi(s) ==
    CASE s = "10" -> 10
      [] s = "11" -> 11
      [] s = "12" -> 12
      [] s = "13" -> 13
      [] OTHER -> 0

(***************************************************************************)
(* pflag's FlagSet.Parse (parseArgs / parseLongArg / parseShortArg), with  *)
(* interspersed arguments: a token that is no flag is a positional         *)
(* argument and is skipped.                                                *)
(***************************************************************************)
\* pflag.stripUnknownFlagValue: an unknown flag swallows the next token
\* unless that token is a flag itself.
stripUnknownFlagValue(args) ==
    IF Len(args) = 0 THEN args
    ELSE IF IsFlagToken(Head(args)) THEN args
    ELSE IF Len(args) > 1 THEN Tail(args)
    ELSE <<>>

RECURSIVE parseArgs(_, _)
parseArgs(fs, args) ==
    IF Len(args) = 0 THEN [fs |-> fs, err |-> FALSE]
    ELSE
      LET s == Head(args)
          a == Tail(args)
      IN  IF ~IsFlagToken(s) THEN parseArgs(fs, a)
          ELSE IF s = "-h" \/ LongName(s) = "help" THEN
              \* a bool flag: NoOptDefVal "true", no value token is taken
              IF fs.helpDefined THEN parseArgs([fs EXCEPT !.help = TRUE], a)
              ELSE [fs |-> fs, err |-> TRUE]
          ELSE IF LongName(s) \notin fs.defined THEN
              IF fs.unknownFlags THEN parseArgs(fs, stripUnknownFlagValue(a))
              ELSE [fs |-> fs, err |-> TRUE]
          ELSE IF Len(a) = 0 THEN [fs |-> fs, err |-> TRUE]
          ELSE IF ~IsInt(Head(a)) THEN [fs |-> fs, err |-> TRUE]
          ELSE parseArgs([fs EXCEPT !.val[LongName(s)] = Atoi(Head(a))], Tail(a))

\* FlagSet.Parse: exit |-> TRUE is os.Exit(2) under ExitOnError; under
\* ContinueOnError the error is returned (and cflag drops it).
PflagParse(fs, args) ==
    LET r == parseArgs(fs, args)
    IN  [fs |-> r.fs, err |-> r.err,
         exit |-> r.err /\ fs.errorHandling = "ExitOnError"]

(***************************************************************************)
(* Command.                                                                *)
(***************************************************************************)
\* The zero value Command{}.
ZeroCommand ==
    [name |-> "", usage |-> "", description |-> "", flags |-> NoFlags,
     commands |-> <<>>, active |-> FALSE, hidden |-> FALSE,
     deprecated |-> FALSE, output |-> "nil", Usage |-> FALSE,
     callback |-> FALSE, recurseArguments |-> FALSE]

\* NewCommand: the fields of the new object.
NewCommand(name, usage, flags) ==
    [ZeroCommand EXCEPT !.name = name, !.usage = usage, !.flags = flags]

\* slices.IndexFunc(c.commands, cmd.name == name); 0 when there is none.
IndexOfName(cs, c, name) ==
    LET hits == {i \in 1..Len(cs[c].commands) : cs[cs[c].commands[i]].name = name}
    IN  IF hits = {} THEN 0 ELSE CHOOSE i \in hits : \A j \in hits : i <= j

AddCommandNoDupCheck(cs, c, n) ==
    IF n = Nil \/ cs[n].name = "" THEN [cmds |-> cs, err |-> "invalid parameters"]
    ELSE [cmds |-> [cs EXCEPT ![c].commands = Append(@, n)], err |-> ""]

\* Command.AddCommand on the commands map cs: the new map and the error.
AddCommand(cs, c, n) ==
    IF n = Nil \/ cs[n].name = "" THEN [cmds |-> cs, err |-> "invalid parameters"]
    ELSE IF IndexOfName(cs, c, cs[n].name) > 0
         THEN [cmds |-> cs, err |-> "already exists"]
    ELSE [cmds |-> [cs EXCEPT ![c].commands = Append(@, n)], err |-> ""]

\* (the FindActive of the earlier version: active children only)
LookupActiveOnly(cs, c, name) ==
    LET hits == {i \in 1..Len(cs[c].commands) :
                    cs[cs[c].commands[i]].active /\ cs[cs[c].commands[i]].name = name}
    IN  IF name = "" THEN c
        ELSE IF hits = {} THEN Nil
        ELSE cs[c].commands[CHOOSE i \in hits : \A j \in hits : i <= j]

\* Command.Lookup
Lookup(cs, c, name) ==
    IF name = "" THEN Nil
    ELSE IF IndexOfName(cs, c, name) > 0
         THEN cs[c].commands[IndexOfName(cs, c, name)]
    ELSE Nil

\* Command.GetName, GetUsage, GetDescription, IsActive, IsHidden, IsDeprecated
GetName(cs, c) == cs[c].name
GetUsage(cs, c) == cs[c].usage
GetDescription(cs, c) == cs[c].description
IsActive(cs, c) == cs[c].active
IsHidden(cs, c) == cs[c].hidden
IsDeprecated(cs, c) == cs[c].deprecated

\* Command.Active
Active(cs, c, name) ==
    IF Lookup(cs, c, name) # Nil THEN IsActive(cs, Lookup(cs, c, name)) ELSE FALSE

\* Command.out
OutOf(cs, c) ==
    IF cs[c].output # "nil" THEN cs[c].output
    ELSE IF cs[Global].output # "nil" THEN cs[Global].output
    ELSE Stderr

CommandUsagesWrappedAll(cs, c) ==
    [i \in 1..Len(cs[c].commands) |->
        [name |-> cs[cs[c].commands[i]].name, usage |-> cs[cs[c].commands[i]].usage]]

\* Command.CommandUsagesWrapped: one line (name, usage) per visible child.
CommandUsagesWrapped(cs, c) ==
    LET visible == SelectSeq(cs[c].commands, LAMBDA k : ~cs[k].hidden)
    IN  [i \in 1..Len(visible) |->
            [name |-> cs[visible[i]].name, usage |-> cs[visible[i]].usage]]

\* Command.FlagUsagesWrapped: the flags listed ({} stands for "").
FlagUsagesWrapped(cs, c) ==
    IF cs[c].flags.nil THEN {}
    ELSE cs[c].flags.defined \cup (IF cs[c].flags.helpDefined THEN {"help"} ELSE {})

\* Command.CommandUsage: the parts of the text; it dereferences c.flags
\* (c.flags.HasAvailableFlags()), which panics for a nil flag set.
CommandUsage(cs, c) ==
    [panic |-> cs[c].flags.nil,
     deprecated |-> cs[c].deprecated,
     usage |-> cs[c].usage,
     description |-> cs[c].description,
     commands |-> CommandUsagesWrapped(cs, c),
     flags |-> FlagUsagesWrapped(cs, c)]

NoText ==
    [panic |-> FALSE, deprecated |-> FALSE, usage |-> "", description |-> "",
     commands |-> <<>>, flags |-> {}]

(***************************************************************************)
(* State.                                                                  *)
(***************************************************************************)
VARIABLES
    cmds,       \* the Command objects, by id; cmds[Global] is `command`
    nnodes,     \* how many Command objects NewCommand has allocated
    Usage,      \* the package variable Usage: "defaultUsage", "custom", "nil"
    gCallback,  \* whether a global fallback callback is registered
    pc,         \* "config", "loop", "dispatch", "done", "exited"
    cmd,        \* Parse's local cmd
    arguments,  \* Parse's local arguments
    entry,      \* the Parse call of the pass: receiver and token stream
    parsed,     \* the flags.Parse calls of the pass: <<command, tokens>>
    chain,      \* the parse chain of the pass
    called,     \* the callbacks executed in the pass
    out,        \* what was written: usage texts, notices, pflag errors
    status,     \* the exit status once pc = "exited"
    ret,        \* the last registration call and what it returned
    nattr       \* attribute-setting calls made so far

vars == <<cmds, nnodes, Usage, gCallback, pc, cmd, arguments, entry, parsed,
          chain, called, out, status, ret, nattr>>

parseVars == <<pc, cmd, arguments, entry, parsed, chain, called, out, status>>

NoRet == [op |-> "", c |-> Nil, n |-> Nil, name |-> "", err |-> ""]
NoEntry == [c |-> Nil, args |-> <<>>]
Allocated == 1..nnodes

Init ==
    /\ cmds = [i \in Ids |-> ZeroCommand]
    /\ nnodes = 0
    /\ Usage = "defaultUsage"
    /\ gCallback = FALSE
    /\ pc = "config"
    /\ cmd = Nil
    /\ arguments = <<>>
    /\ entry = NoEntry
    /\ parsed = <<>>
    /\ chain = <<>>
    /\ called = <<>>
    /\ out = <<>>
    /\ status = NoExit
    /\ ret = NoRet
    /\ nattr = 0

(***************************************************************************)
(* Registration.                                                           *)
(***************************************************************************)
\* n := NewCommand(name, usage, flags), kept by the caller
NewCommandCall(name, flags) ==
    /\ pc = "config"
    /\ nnodes < MaxNodes
    /\ cmds' = [cmds EXCEPT ![nnodes + 1] = NewCommand(name, UsageOf(name), flags)]
    /\ nnodes' = nnodes + 1
    /\ ret' = [NoRet EXCEPT !.op = "NewCommand", !.n = nnodes + 1, !.name = name]
    /\ UNCHANGED <<Usage, gCallback, nattr, parseVars>>

\* c.AddCommand(n)
AddCommandCall(c, n) ==
    /\ pc = "config"
    /\ LET r == AddCommand(cmds, c, n)
       IN  /\ cmds' = r.cmds
           /\ ret' = [NoRet EXCEPT !.op = "AddCommand", !.c = c, !.n = n, !.err = r.err]
    /\ UNCHANGED <<nnodes, Usage, gCallback, nattr, parseVars>>

\* The package-level AddCommand(command): its parameter shadows the global
\* register, so the call is command.AddCommand(command) on the parameter.
PkgAddCommandCall(n) ==
    /\ pc = "config"
    /\ LET r == IF n = Nil THEN [cmds |-> cmds, err |-> "invalid parameters"]
                ELSE AddCommand(cmds, n, n)
       IN  /\ cmds' = r.cmds
           /\ ret' = [NoRet EXCEPT !.op = "pkg.AddCommand", !.c = Global, !.n = n,
                                   !.err = r.err]
    /\ UNCHANGED <<nnodes, Usage, gCallback, nattr, parseVars>>

\* Command.Cmd on the state: NewCommand, then AddCommand; the object of a
\* failed call is dropped (nil is returned), so it takes no id.
Cmd(cs, nn, c, name, usage, flags) ==
    LET id == nn + 1
        withNew == [cs EXCEPT ![id] = NewCommand(name, usage, flags)]
        r == AddCommand(withNew, c, id)
    IN  IF r.err # "" THEN [cmds |-> cs, nnodes |-> nn, node |-> Nil, err |-> r.err]
        ELSE [cmds |-> r.cmds, nnodes |-> id, node |-> id, err |-> ""]

\* c.Cmd(name, usage, flags); c = Global is the package-level Cmd.
CmdCall(c, name, flags) ==
    /\ pc = "config"
    /\ nnodes < MaxNodes
    /\ LET r == Cmd(cmds, nnodes, c, name, UsageOf(name), flags)
       IN  /\ cmds' = r.cmds
           /\ nnodes' = r.nnodes
           /\ ret' = [NoRet EXCEPT !.op = "Cmd", !.c = c, !.n = r.node,
                                   !.name = name, !.err = r.err]
    /\ UNCHANGED <<Usage, gCallback, nattr, parseVars>>

(***************************************************************************)
(* Attributes.  c = Global is the package-level function of the same name. *)
(***************************************************************************)
AttrStep(newCmds) ==
    /\ pc = "config"
    /\ nattr < MaxAttrOps
    /\ nattr' = nattr + 1
    /\ cmds' = newCmds
    /\ ret' = NoRet
    /\ UNCHANGED <<nnodes, parseVars>>

SetDescriptionCall(c, description) ==
    /\ AttrStep([cmds EXCEPT ![c].description = description])
    /\ UNCHANGED <<Usage, gCallback>>

MarkHiddenCall(c) ==
    /\ AttrStep([cmds EXCEPT ![c].hidden = TRUE])
    /\ UNCHANGED <<Usage, gCallback>>

MarkDeprecatedCall(c) ==
    /\ AttrStep([cmds EXCEPT ![c].hidden = TRUE, ![c].deprecated = TRUE])
    /\ UNCHANGED <<Usage, gCallback>>

SetOutputCall(c, output) ==
    /\ AttrStep([cmds EXCEPT ![c].output = output])
    /\ UNCHANGED <<Usage, gCallback>>

\* c.Usage = f, an assignment to the exported field
SetUsageFieldCall(c) ==
    /\ AttrStep([cmds EXCEPT ![c].Usage = TRUE])
    /\ UNCHANGED <<Usage, gCallback>>

\* cflag.Usage = f (or nil), an assignment to the package variable
SetUsageVarCall(f) ==
    /\ AttrStep(cmds)
    /\ Usage' = f
    /\ UNCHANGED gCallback

\* How many callbacks are registered.
Callbacks(cs, global) ==
    Cardinality({c \in Ids : cs[c].callback}) + (IF global THEN 1 ELSE 0)

\* SetCallback on a command, or the package-level SetCallback (c = Global)
SetCallbackCall(c) ==
    /\ pc = "config"
    /\ Callbacks(cmds, gCallback) < MaxCallbacks
    /\ cmds' = IF c = Global THEN cmds ELSE [cmds EXCEPT ![c].callback = TRUE]
    /\ gCallback' = (gCallback \/ c = Global)
    /\ ret' = NoRet
    /\ UNCHANGED <<nnodes, Usage, nattr, parseVars>>

\* SetRecurseArguments on a command
SetRecurseArgumentsCall(c) ==
    /\ AttrStep([cmds EXCEPT ![c].recurseArguments = TRUE])
    /\ UNCHANGED <<Usage, gCallback>>

\* (a reset that empties the register but keeps what the root was given)
ResetChildrenOnly(cs) == [cs EXCEPT ![Global].commands = <<>>, ![Global].active = FALSE]

\* command = Command{}
Reset(cs) == [cs EXCEPT ![Global] = ZeroCommand]

\* Reset
ResetCall ==
    /\ pc = "config"
    /\ cmds' = Reset(cmds)
    /\ Usage' = "defaultUsage"
    /\ gCallback' = FALSE
    /\ ret' = NoRet
    /\ UNCHANGED <<nnodes, nattr, parseVars>>

(***************************************************************************)
(* Parse.                                                                  *)
(***************************************************************************)
\* What is written: kind is "usage", "deprecated" or "error".
OutEntry(kind, c, by, sink, text) ==
    [kind |-> kind, node |-> c, by |-> by, sink |-> sink, text |-> text]

\* (usage(&command): the help of the global register, whatever c is)
UsageEntryGlobal(cs, c) ==
    IF cs[Global].Usage THEN OutEntry("usage", Global, "c.Usage", "custom", NoText)
    ELSE IF Usage = "custom" THEN OutEntry("usage", Global, "Usage", "custom", NoText)
    ELSE OutEntry("usage", Global, "defaultUsage", OutOf(cs, Global), CommandUsage(cs, Global))

\* usage(c): c.Usage, else the package variable Usage, else defaultUsage,
\* which prints c.CommandUsage() to c.out().
UsageEntry(cs, c) ==
    IF cs[c].Usage THEN OutEntry("usage", c, "c.Usage", "custom", NoText)
    ELSE IF Usage = "custom" THEN OutEntry("usage", c, "Usage", "custom", NoText)
    ELSE OutEntry("usage", c, "defaultUsage", OutOf(cs, c), CommandUsage(cs, c))

MarkActiveExclusive(cs, c) == [n \in DOMAIN cs |-> [cs[n] EXCEPT !.active = (n = c)]]

MarkActiveFresh(cs, c) ==
    [cs EXCEPT ![c] = [NewCommand(cs[c].name, cs[c].usage, cs[c].flags) EXCEPT !.active = TRUE]]

\* c.active = true (lines 504 and 554)
MarkActive(cs, c) == [cs EXCEPT ![c].active = TRUE]

ParseReturnsEarlyEmptyOnly(cs, c, args) == Len(args) = 0

\* Lines 488-501: Parse returns at once for an empty stream, and for a
\* named command whose name is not the first token.
ParseReturnsEarly(cs, c, args) ==
    Len(args) = 0 \/ (cs[c].name # "" /\ cs[c].name # args[1])

\* Lines 487-505 on the commands map cs: the guards, then c.active = true
\* and the first token is dropped.  An early return ends the pass.
ParseStart(cs, c, args) ==
    /\ pc = "config"
    /\ entry' = [c |-> c, args |-> args]
    /\ parsed' = <<>>
    /\ chain' = <<>>
    /\ called' = <<>>
    /\ ret' = NoRet
    /\ IF ParseReturnsEarly(cs, c, args)
       THEN /\ cmds' = cs
            /\ pc' = "done"
            /\ cmd' = Nil
            /\ arguments' = <<>>
       ELSE /\ cmds' = MarkActive(cs, c)
            /\ pc' = "loop"
            /\ cmd' = c
            /\ arguments' = Tail(args)
    /\ UNCHANGED <<nnodes, Usage, gCallback, out, status, nattr>>

\* c.Parse(arguments) on a command the caller holds
ParseCall(c, args) == ParseStart(cmds, c, args)

\* The package-level Parse(arguments, flags)
PkgParseCall(args, flags) ==
    ParseStart([cmds EXCEPT ![Global].flags = flags], Global, args)

\* (the scan with its loops swapped: children in registration order first)
ScanIndexByRegistration(cs, c, args) ==
    LET ks == {k \in 1..Len(cs[c].commands) : cs[cs[c].commands[k]].name \in Range(args)}
        k == CHOOSE k \in ks : \A j \in ks : k <= j
    IN  IF ks = {} THEN 0 ELSE FirstIndexOf(args, cs[cs[c].commands[k]].name)

\* Lines 509-522: the index of the first token that names a direct child of
\* c (0 when there is none), and the split of the stream at it.
ScanIndex(cs, c, args) ==
    LET hits == {i \in 1..Len(args) : IndexOfName(cs, c, args[i]) > 0}
    IN  IF Len(cs[c].commands) = 0 \/ hits = {} THEN 0
        ELSE CHOOSE i \in hits : \A j \in hits : i <= j

SubCmdOfFirstChild(cs, c, args) ==
    IF Len(cs[c].commands) = 0 THEN Nil ELSE cs[c].commands[1]

SubCmdOf(cs, c, args) ==
    IF ScanIndex(cs, c, args) = 0 THEN Nil
    ELSE cs[c].commands[IndexOfName(cs, c, args[ScanIndex(cs, c, args)])]

ArgsBeforeSubCmd(cs, c, args) ==
    IF ScanIndex(cs, c, args) = 0 THEN args
    ELSE SubSeq(args, 1, ScanIndex(cs, c, args) - 1)

ArgsAfterSubCmdSkipName(cs, c, args) ==
    IF ScanIndex(cs, c, args) = 0 THEN <<>>
    ELSE SubSeq(args, ScanIndex(cs, c, args) + 1, Len(args))

ArgsAfterSubCmd(cs, c, args) ==
    IF ScanIndex(cs, c, args) = 0 THEN <<>>
    ELSE SubSeq(args, ScanIndex(cs, c, args), Len(args))

ParsesFlagsUnlessDeprecated(cs, c, before) ==
    ~cs[c].flags.nil /\ Len(before) > 0 /\ ~cs[c].deprecated

\* Lines 530-534: whether the flag set is parsed, and the set with the help
\* option added when it has none.
ParsesFlags(cs, c, before) == ~cs[c].flags.nil /\ Len(before) > 0

WithHelp(fs) == IF GetBoolHelp(fs).err THEN DefineHelp(fs) ELSE fs

AppendCapped(s, e) == IF Len(s) < MaxChain THEN Append(s, e) ELSE s

\* The parent linkage AddCommand establishes for the replay, and the
\* ancestors of c along it, nearest first.
ParentOf(cs, c) ==
    LET ps == {p \in Ids : \E i \in 1..Len(cs[p].commands) : cs[p].commands[i] = c}
    IN  IF ps = {} THEN Nil ELSE CHOOSE p \in ps : TRUE

RECURSIVE AncestorsOf(_, _, _)
AncestorsOf(cs, c, fuel) ==
    IF fuel = 0 \/ ParentOf(cs, c) = Nil THEN <<>>
    ELSE <<ParentOf(cs, c)>> \o AncestorsOf(cs, ParentOf(cs, c), fuel - 1)

NoReplay(cs) == [cmds |-> cs, parses |-> <<>>, exit |-> FALSE, by |-> Nil]

\* (the replay that stops at the parent)
RECURSIVE ReplayNearestOnly(_, _, _)
ReplayNearestOnly(cs, anc, before) ==
    IF Len(anc) = 0 THEN NoReplay(cs)
    ELSE LET a == Head(anc)
             r == PflagParse(cs[a].flags, before)
             cs1 == [cs EXCEPT ![a].flags = r.fs]
         IN  IF cs[a].flags.nil THEN NoReplay(cs)
             ELSE [cmds |-> cs1, parses |-> << <<a, before>> >>, exit |-> r.exit,
                   by |-> IF r.exit THEN a ELSE Nil]

\* Recursive arguments: the segment is parsed by the flag set of each
\* ancestor in turn, with no help handling and no notice; an ancestor
\* without a flag set is passed over, and pflag itself ends the process on
\* an error under ExitOnError.
RECURSIVE Replay(_, _, _)
Replay(cs, anc, before) ==
    IF Len(anc) = 0 THEN NoReplay(cs)
    ELSE LET a == Head(anc)
             r == PflagParse(cs[a].flags, before)
             cs1 == [cs EXCEPT ![a].flags = r.fs]
             rest == Replay(cs1, Tail(anc), before)
         IN  IF cs[a].flags.nil THEN Replay(cs, Tail(anc), before)
             ELSE IF r.exit
                  THEN [cmds |-> cs1, parses |-> << <<a, before>> >>, exit |-> TRUE, by |-> a]
             ELSE [rest EXCEPT !.parses = << <<a, before>> >> \o @]

\* Lines 508-562: one iteration of the loop of Parse at cmd = c with the
\* remaining arguments args: the commands afterwards, the flags.Parse calls
\* made, what is written, the exit status (NoExit when the loop goes on) and
\* the subcommand and arguments of the next iteration.
LoopStep(cs, c, args) ==
    LET subCmd == SubCmdOf(cs, c, args)
        before == ArgsBeforeSubCmd(cs, c, args)
        after == ArgsAfterSubCmd(cs, c, args)
        doFlags == ParsesFlags(cs, c, before)
        r == PflagParse(WithHelp(cs[c].flags), before)
        cs1 == IF doFlags THEN [cs EXCEPT ![c].flags = r.fs] ELSE cs
        own == IF doFlags THEN << <<c, before>> >> ELSE <<>>
        rp == IF cs1[c].recurseArguments /\ Len(before) > 0
              THEN Replay(cs1, AncestorsOf(cs1, c, MaxChain), before)
              ELSE NoReplay(cs1)
    IN  IF doFlags /\ r.exit THEN
            \* pflag under ExitOnError: fmt.Println(err); os.Exit(2)
            [cmds |-> cs1, parses |-> own, exit |-> 2, subCmd |-> Nil, arguments |-> args,
             outs |-> << OutEntry("error", c, "pflag", "os.Stdout", NoText) >>]
        ELSE IF doFlags /\ GetBoolHelp(r.fs).value THEN
            \* usage(cmd); os.Exit(0)
            [cmds |-> cs1, parses |-> own, exit |-> 0, subCmd |-> Nil, arguments |-> args,
             outs |-> << UsageEntry(cs1, c) >>]
        ELSE IF rp.exit THEN
            [cmds |-> rp.cmds, parses |-> own \o rp.parses, exit |-> 2, subCmd |-> Nil,
             arguments |-> args,
             outs |-> << OutEntry("error", rp.by, "pflag", "os.Stdout", NoText) >>]
        ELSE
            [cmds |-> IF subCmd # Nil THEN MarkActive(rp.cmds, subCmd) ELSE rp.cmds,
             parses |-> own \o rp.parses, exit |-> NoExit, subCmd |-> subCmd,
             arguments |-> after,
             outs |-> IF doFlags /\ cs1[c].deprecated
                      THEN << OutEntry("deprecated", c, "Parse", OutOf(cs1, c), NoText) >>
                      ELSE <<>>]

ParseLoop ==
    /\ pc = "loop"
    /\ LET r == LoopStep(cmds, cmd, arguments)
       IN  /\ cmds' = r.cmds
           /\ parsed' = parsed \o r.parses
           /\ out' = out \o r.outs
           /\ IF r.exit # NoExit THEN
                 /\ pc' = "exited"
                 /\ status' = r.exit
                 /\ UNCHANGED <<cmd, arguments, chain>>
              ELSE
                 /\ chain' = AppendCapped(chain, cmd)
                 /\ UNCHANGED status
                 /\ IF r.subCmd # Nil
                    THEN /\ cmd' = r.subCmd
                         /\ arguments' = r.arguments
                         /\ pc' = "loop"
                    ELSE /\ cmd' = Nil
                         /\ arguments' = <<>>
                         /\ pc' = "dispatch"
    /\ UNCHANGED <<nnodes, Usage, gCallback, entry, called, ret, nattr>>

\* Parse has returned to its caller, which goes on calling the API.
ParseReturn ==
    /\ pc = "done"
    /\ pc' = "config"
    /\ UNCHANGED <<cmds, nnodes, Usage, gCallback, cmd, arguments, entry, parsed,
                   chain, called, out, status, ret, nattr>>

\* The callback of a pass: the deepest chain node that has one, else the
\* global fallback (GlobalCb), else none (Nil).
GlobalCb == -2
CallbackOwnerShallowest(cs, ch, global) ==
    LET own == {i \in 1..Len(ch) : cs[ch[i]].callback}
    IN  IF own # {} THEN ch[CHOOSE i \in own : \A j \in own : i <= j]
        ELSE IF global THEN GlobalCb
        ELSE Nil

CallbackOwnerGlobalFirst(cs, ch, global) ==
    LET own == {i \in 1..Len(ch) : cs[ch[i]].callback}
    IN  IF global THEN GlobalCb
        ELSE IF own # {} THEN ch[CHOOSE i \in own : \A j \in own : j <= i]
        ELSE Nil

CallbackOwner(cs, ch, global) ==
    LET own == {i \in 1..Len(ch) : cs[ch[i]].callback}
    IN  IF own # {} THEN ch[CHOOSE i \in own : \A j \in own : j <= i]
        ELSE IF global THEN GlobalCb
        ELSE Nil

\* Callback dispatch after the chain is built: the owner's callback is run
\* with the deepest chain node.
Dispatch ==
    /\ pc = "dispatch"
    /\ called' = IF CallbackOwner(cmds, chain, gCallback) = Nil THEN called
                 ELSE Append(called, [owner |-> CallbackOwner(cmds, chain, gCallback),
                                      target |-> chain[Len(chain)]])
    /\ pc' = "done"
    /\ UNCHANGED <<cmds, nnodes, Usage, gCallback, cmd, arguments, entry, parsed,
                   chain, out, status, ret, nattr>>

(***************************************************************************)
(* Token streams and the specification.                                    *)
(***************************************************************************)
SeqsUpTo(S, n) == UNION {[1..k -> S] : k \in 0..n}

ShortStreams(heads) ==
    {<<>>} \cup {<<h>> \o r : h \in heads, r \in SeqsUpTo(Tokens, MaxArgs)}

\* The streams of TestParse / TestExample, on the flags of this model.
ScenarioStreams ==
    { <<"prog", "foo", "--test1", "11", "bar", "--test1", "12">>,
      <<"prog", "--test1", "10", "foo", "--test1", "11", "bar", "--test1", "12">>,
      <<"prog", "foo", "bar", "--test1", "13">>,
      <<"prog", "foo", "--help", "bar">>,
      <<"prog", "-h">>,
      <<"prog", "foo", "-h">> }

\* The package-level Parse drops the first token unseen: os.Args[0].
PkgStreams == ShortStreams({"prog"}) \cup ScenarioStreams
Streams == ShortStreams(Heads) \cup ScenarioStreams

\* The flag sets and tokens of the runs that exercise the whole API.
RegFlagSetInputs == {NoFlags, DefineInt(NewFlagSet("ExitOnError"), "test1", DefaultOf("test1"))}

Register(F) ==
    \/ \E name \in CmdNames \cup {""}, flags \in F : NewCommandCall(name, flags)
    \/ \E c \in Allocated, n \in Allocated \cup {Nil} : AddCommandCall(c, n)
    \/ \E n \in Allocated \cup {Nil} : PkgAddCommandCall(n)
    \/ \E c \in Allocated \cup {Global}, name \in CmdNames \cup {""}, flags \in F :
          CmdCall(c, name, flags)

SetAttribute ==
    \/ \E c \in Allocated \cup {Global} : SetDescriptionCall(c, "Description.")
    \/ \E c \in Allocated : MarkHiddenCall(c)
    \/ \E c \in Allocated : MarkDeprecatedCall(c)
    \/ \E c \in Allocated \cup {Global}, w \in Writers : SetOutputCall(c, w)
    \/ \E c \in Allocated : SetUsageFieldCall(c)
    \/ \E f \in {"custom", "nil"} : SetUsageVarCall(f)

ParsePass(S, P, F) ==
    \/ \E c \in Allocated, args \in S : ParseCall(c, args)
    \/ \E args \in P, flags \in F : PkgParseCall(args, flags)
    \/ ParseLoop
    \/ Dispatch

\* The configuration phase of any program: every registration and
\* attribute call of the API.
Next ==
    \/ Register(RegFlagSetInputs)
    \/ SetAttribute
    \/ ResetCall

Spec == Init /\ [][Next]_vars

\* A program that builds its command tree with Cmd, as the tests and the
\* README do, and then parses.
NextTree ==
    \/ \E c \in Allocated \cup {Global}, name \in CmdNames, flags \in FlagSetInputs :
          CmdCall(c, name, flags)
    \/ SetDescriptionCall(Global, "Description.")
    \/ \E c \in Allocated : MarkHiddenCall(c)
    \/ \E c \in Allocated : MarkDeprecatedCall(c)
    \/ ParsePass(Streams, PkgStreams, FlagSetInputs)

SpecTree == Init /\ [][NextTree]_vars

\* A program that registers callbacks on its tree and parses.
CbFlagSetInputs ==
    {NoFlags} \cup {DefineInt(NewFlagSet(eh), "test1", DefaultOf("test1")) : eh \in ErrorHandlings}

NextCallback ==
    \/ \E c \in Allocated \cup {Global}, name \in CmdNames, flags \in CbFlagSetInputs :
          CmdCall(c, name, flags)
    \/ \E c \in Allocated \cup {Global} : SetCallbackCall(c)
    \/ ParsePass(Streams, PkgStreams, CbFlagSetInputs)

SpecCallback == Init /\ [][NextCallback]_vars

\* A program that enables recursive arguments on a command of its tree:
\* the flag sets of TestParentArgs (test0, test1, test2), one per level.
RecFlagSetInputs ==
    {NoFlags} \cup {DefineInt(NewFlagSet("ExitOnError"), f, DefaultOf(f)) : f \in FlagNames}

ParentArgsStream ==
    <<"prog", "foo", "bar", "--test0", "10", "--test1", "11", "--test2", "12">>

RecStreams ==
    { ParentArgsStream,
      <<"prog", "foo", "bar", "--test1", "11">>,
      <<"prog", "foo", "--test1", "11", "bar", "--test0", "10">>,
      <<"prog", "foo", "bar", "--test1">>,
      <<"prog", "foo", "bar", "--help">>,
      <<"prog", "foo", "bar">>,
      <<"prog", "bar", "--test0", "10">> }

RecStandaloneStreams ==
    { <<"foo", "bar", "--test1", "11">>, <<"bar", "--test0", "10">> }

NextRecurse ==
    \/ \E c \in Allocated \cup {Global}, name \in CmdNames, flags \in RecFlagSetInputs :
          CmdCall(c, name, flags)
    \/ \E c \in Allocated : SetRecurseArgumentsCall(c)
    \/ ParsePass(RecStandaloneStreams, RecStreams, RecFlagSetInputs)

SpecRecurse == Init /\ [][NextRecurse]_vars

\* A program that redirects the output of some command (as
\* TestRedirectOutput does for the global register) or deprecates one, and
\* parses.
OutStreams == ShortStreams({"prog"}) \cup {<<"prog", "foo", "bar", "--help">>}

NextOutput ==
    \/ \E c \in Allocated \cup {Global}, name \in CmdNames, flags \in RegFlagSetInputs :
          CmdCall(c, name, flags)
    \/ \E c \in Allocated \cup {Global}, w \in Writers : SetOutputCall(c, w)
    \/ \E c \in Allocated : MarkDeprecatedCall(c)
    \/ ParsePass(ShortStreams({"foo"}), OutStreams, RegFlagSetInputs)

SpecOutput == Init /\ [][NextOutput]_vars

\* A program that parses more than once, and resets the global register
\* between its runs (as buildTestContext does before each test).
PassStreams ==
    { <<"prog">>, <<"prog", "foo">>, <<"prog", "bar">>, <<"prog", "foo", "bar">>,
      <<"prog", "--test1", "11">>, <<"prog", "foo", "--test1", "11">> }

PassStandaloneStreams == { <<"foo">>, <<"foo", "bar">> }

NextPasses ==
    \/ \E c \in Allocated \cup {Global}, name \in CmdNames, flags \in RegFlagSetInputs :
          CmdCall(c, name, flags)
    \/ SetDescriptionCall(Global, "Description.")
    \/ \E w \in Writers : SetOutputCall(Global, w)
    \/ SetUsageVarCall("custom")
    \/ ParsePass(PassStandaloneStreams, PassStreams, RegFlagSetInputs)
    \/ ParseReturn
    \/ ResetCall

SpecPasses == Init /\ [][NextPasses]_vars

\* A program that registers commands by every registration operation and
\* parses; a Parse call that has started runs on (the loop has no
\* suspension point), which is the fairness of ParseLoop and Dispatch.
TermStreams == { <<"foo">>, <<"foo", "foo">>, <<"foo", "bar">>, <<"bar", "foo">> }
TermPkgStreams == { <<"prog">>, <<"prog", "foo">>, <<"prog", "foo", "bar">> }

NextTerm ==
    \/ \E name \in CmdNames : NewCommandCall(name, NoFlags)
    \/ \E c \in Allocated, n \in Allocated : AddCommandCall(c, n)
    \/ \E n \in Allocated : PkgAddCommandCall(n)
    \/ \E c \in Allocated \cup {Global}, name \in CmdNames : CmdCall(c, name, NoFlags)
    \/ ParsePass(TermStreams, TermPkgStreams, {NoFlags})

SpecTerm == Init /\ [][NextTerm]_vars /\ WF_vars(ParseLoop) /\ WF_vars(Dispatch)

(***************************************************************************)
(* Notions the claims are stated in.                                       *)
(***************************************************************************)
ActiveSet(cs) == {n \in Ids : cs[n].active}
Last(s) == s[Len(s)]
\* The pass ran to the end of the loop (no early return, no process exit).
PassCompleted == pc \in {"dispatch", "done"} /\ chain # <<>>
HelpTokens == {"--help", "-h"}

\* The children of c, and everything below c.
ChildrenOf(cs, c) == Range(cs[c].commands)
RECURSIVE Below(_, _, _)
Below(cs, S, k) ==
    IF k = 0 THEN S
    ELSE Below(cs, S \cup UNION {ChildrenOf(cs, c) : c \in S}, k - 1)
DescendantsOf(cs, c) == Below(cs, ChildrenOf(cs, c), MaxNodes)

\* The chain of the spec: from c, whose own name token is consumed, on to
\* the child named by the first token of the rest that names a child, and on
\* from it with the tokens after that name.
RECURSIVE SpecChain(_, _, _, _)
SpecChain(cs, c, rest, fuel) ==
    LET hits == {i \in 1..Len(rest) : \E k \in ChildrenOf(cs, c) : cs[k].name = rest[i]}
        i == CHOOSE i \in hits : \A j \in hits : i <= j
        k == CHOOSE k \in ChildrenOf(cs, c) : cs[k].name = rest[i]
    IN  IF hits = {} \/ fuel = 0 THEN <<c>>
        ELSE <<c>> \o SpecChain(cs, k, SubSeq(rest, i + 1, Len(rest)), fuel - 1)

\* The segments of a stream for a chain: rest is cut at the first occurrence
\* of each chain node's name in turn; a segment begins with its node's name.
RECURSIVE Segments(_, _)
Segments(names, rest) ==
    IF Len(names) = 0 \/ FirstIndexOf(rest, Head(names)) = 0 THEN <<rest>>
    ELSE <<SubSeq(rest, 1, FirstIndexOf(rest, Head(names)) - 1)>>
         \o Segments(Tail(names), SubSeq(rest, FirstIndexOf(rest, Head(names)), Len(rest)))

ChainSegments ==
    Segments([i \in 1..(Len(chain) - 1) |-> cmds[chain[i + 1]].name], Tail(entry.args))

\* The flags.Parse calls the segments ask for: one per chain node that has
\* a flag set and a non-empty segment, in chain order.
RECURSIVE ExpectedParses(_, _, _)
ExpectedParses(cs, ch, segs) ==
    IF Len(ch) = 0 \/ Len(segs) = 0 THEN <<>>
    ELSE (IF ~cs[Head(ch)].flags.nil /\ Len(Head(segs)) > 0
          THEN << <<Head(ch), Head(segs)>> >> ELSE <<>>)
         \o ExpectedParses(cs, Tail(ch), Tail(segs))

(***************************************************************************)
(* C1-C3: the chain, the segments, the frame of a pass.                    *)
(***************************************************************************)
\* C1: after a pass that starts with no node active, the active nodes are
\* exactly the nodes of the chain of the spec: the root, then repeatedly the
\* child named by the first token of the remaining stream that names a child.
C1_ActiveIsSpecChain ==
    PassCompleted =>
        ActiveSet(cmds) = Range(SpecChain(cmds, entry.c, Tail(entry.args), MaxChain))

\* C2: each chain node's flag set is given exactly its segment of the
\* stream - the root the tokens before c1's name, ci the tokens from its name
\* up to c(i+1)'s name, ck the rest - and nothing else is parsed; on
\* [prog, foo, --test1, 11, bar, --test1, 12] foo reads 11 and foo/bar 12,
\* and the root, an ancestor of both, keeps its default.
ScenarioFooBar == <<"prog", "foo", "--test1", "11", "bar", "--test1", "12">>
C2_SegmentsParsed ==
    PassCompleted =>
        /\ parsed = ExpectedParses(cmds, chain, ChainSegments)
        /\ (/\ entry.args = ScenarioFooBar
            /\ Len(chain) = 3
            /\ cmds[chain[2]].name = "foo"
            /\ cmds[chain[3]].name = "bar") =>
              /\ "test1" \in cmds[chain[2]].flags.defined => cmds[chain[2]].flags.val["test1"] = 11
              /\ "test1" \in cmds[chain[3]].flags.defined => cmds[chain[3]].flags.val["test1"] = 12
              /\ "test1" \in cmds[chain[1]].flags.defined =>
                     cmds[chain[1]].flags.val["test1"] = DefaultOf("test1")

C2_Witness ==
    /\ pc = "done"
    /\ entry.args = ScenarioFooBar
    /\ Len(chain) = 3
    /\ cmds[chain[3]].name = "bar"
    /\ Len(parsed) = 2
    /\ cmds[chain[1]].flags.defined = {"test1"}
    /\ cmds[chain[2]].flags.val["test1"] = 11
    /\ cmds[chain[3]].flags.val["test1"] = 12

\* C3: a pass changes no flag set but the one of the node it is at, which
\* is active; a node that is not activated keeps the flag set it was
\* registered with, whatever options the stream holds; and a flag set made
\* by NewFlagSet ends the pass (exit status 2) only over an option it
\* defines, never over an unrecognised one.
Pristine(fs) == fs \in FlagSetInputs
C3_FlagsOnlyOnChain ==
    /\ [](\A n \in Allocated : ~cmds[n].active => Pristine(cmds[n].flags))
    /\ [][pc = "loop" =>
            /\ cmds[cmd].active
            /\ \A n \in Ids : n # cmd => cmds'[n].flags = cmds[n].flags
            /\ (pc' = "exited" /\ status' = 2) =>
                  \E i \in 1..Len(arguments) :
                      /\ IsFlagToken(arguments[i])
                      /\ LongName(arguments[i]) \in cmds[cmd].flags.defined]_vars

\* world is not named: its test1 keeps the default although --test1 11 is
\* in the segment of a chain node that does not define test1.
C3_Witness ==
    /\ pc = "done"
    /\ \E n \in Allocated :
          /\ ~cmds[n].active
          /\ "test1" \in cmds[n].flags.defined
          /\ cmds[n].flags.val["test1"] = DefaultOf("test1")
    /\ \E i \in 1..Len(parsed) :
          /\ "--test1" \in Range(parsed[i][2])
          /\ "11" \in Range(parsed[i][2])
          /\ "test1" \notin cmds[parsed[i][1]].flags.defined
          /\ parsed[i][1] # Global

(***************************************************************************)
(* C4-C6: registration, lookup, and what a pass leaves alone.              *)
(***************************************************************************)
HasChildNamed(cs, c, name) == \E k \in ChildrenOf(cs, c) : cs[k].name = name

\* C4: c.AddCommand(n) fails exactly when n is nil, n's name is empty or c
\* has a child of that name; a failed call changes nothing, a successful one
\* appends n after the earlier children.  Cmd returns the new node on
\* success, and nil with the same failure otherwise.
C4_AddCommand ==
    [][/\ ret'.op = "AddCommand" =>
            LET c == ret'.c
                n == ret'.n
                failed == ret'.err # ""
            IN  /\ failed <=> (n = Nil \/ cmds[n].name = ""
                                 \/ HasChildNamed(cmds, c, cmds[n].name))
                /\ failed => cmds' = cmds
                /\ ~failed => /\ cmds'[c].commands = Append(cmds[c].commands, n)
                              /\ \A k \in Ids \ {c} : cmds'[k] = cmds[k]
       /\ ret'.op = "Cmd" =>
            LET c == ret'.c
                failed == ret'.err # ""
            IN  /\ failed <=> (ret'.name = "" \/ HasChildNamed(cmds, c, ret'.name))
                /\ failed <=> ret'.n = Nil
                /\ failed => cmds' = cmds /\ nnodes' = nnodes
                /\ ~failed => /\ cmds'[c].commands = Append(cmds[c].commands, ret'.n)
                              /\ ret'.n \notin Allocated
                              /\ cmds'[ret'.n].name = ret'.name]_vars

\* A duplicate was rejected: the first registration is still the only one.
C4_Witness ==
    /\ ret.op = "AddCommand"
    /\ ret.err = "already exists"
    /\ Len(cmds[ret.c].commands) = 1
    /\ cmds[cmds[ret.c].commands[1]].name = cmds[ret.n].name
    /\ cmds[ret.c].commands[1] # ret.n

\* C5: right after a successful c.Cmd(name, usage, flags), c.Lookup(name)
\* is the node created, with that name and usage; Lookup returns none for
\* the empty name and for a name no direct child has (a grandchild of that
\* name is not found), and otherwise a direct child of that name.
C5_LookupRoundTrip ==
    /\ (ret.op = "Cmd" /\ ret.err = "") =>
          /\ Lookup(cmds, ret.c, ret.name) = ret.n
          /\ GetName(cmds, Lookup(cmds, ret.c, ret.name)) = ret.name
          /\ GetUsage(cmds, Lookup(cmds, ret.c, ret.name)) = UsageOf(ret.name)
    /\ \A c \in Ids, name \in CmdNames \cup {""} :
          /\ (name = "" \/ ~HasChildNamed(cmds, c, name)) => Lookup(cmds, c, name) = Nil
          /\ Lookup(cmds, c, name) # Nil =>
                /\ Lookup(cmds, c, name) \in ChildrenOf(cmds, c)
                /\ cmds[Lookup(cmds, c, name)].name = name

\* bar was created under foo: the root finds foo, and finds no bar.
C5_Witness ==
    /\ ret.op = "Cmd"
    /\ ret.err = ""
    /\ ret.c # Global
    /\ ret.c \in ChildrenOf(cmds, Global)
    /\ Lookup(cmds, ret.c, ret.name) = ret.n
    /\ Lookup(cmds, Global, ret.name) = Nil
    /\ Lookup(cmds, Global, cmds[ret.c].name) = ret.c

\* C6: no step of a pass changes what Lookup returns on any node, nor any
\* node's children, name, usage, description, hidden or deprecated mark:
\* only active flags and flag sets change.
Structure(c) == [c EXCEPT !.active = FALSE, !.flags = NoFlags]
C6_ParseKeepsStructure ==
    [][pc' # "config" =>
          /\ \A n \in Ids : Structure(cmds'[n]) = Structure(cmds[n])
          /\ \A n \in Ids, name \in CmdNames \cup {""} :
                Lookup(cmds', n, name) = Lookup(cmds, n, name)
          /\ nnodes' = nnodes]_vars

\* A pass over a tree with a marked node has run down to a grandchild.
C6_Witness ==
    /\ pc = "done"
    /\ Len(chain) = 3
    /\ cmds[chain[3]].active
    /\ \E n \in Allocated : cmds[n].hidden
    /\ \E i \in 1..Len(parsed) : cmds[parsed[i][1]].flags.val["test1"] = 11

(***************************************************************************)
(* C7-C8: help.                                                            *)
(***************************************************************************)
\* The nodes of the pass, and the ancestors of n among them.
PassNodes == {entry.c} \cup DescendantsOf(cmds, entry.c)
PassAncestors(n) == {a \in PassNodes : n \in DescendantsOf(cmds, a)}

C8_HelpWithoutFlagSet ==
    [][(/\ pc = "loop"
        /\ cmds[cmd].flags.nil
        /\ Range(ArgsBeforeSubCmd(cmds, cmd, arguments)) \cap HelpTokens # {})
          => (/\ pc' = "exited"
              /\ status' = 0
              /\ ~cmds'[cmd].flags.nil
              /\ Len(out') = Len(out) + 1
              /\ Last(out').kind = "usage"
              /\ Last(out').node = cmd)]_vars

(***************************************************************************)
(* C9-C10: callback dispatch.                                              *)
(***************************************************************************)
ChainOwners == {i \in 1..Len(chain) : cmds[chain[i]].callback}

\* C9: after a pass that did not end in help, the callback of the deepest
\* chain node that has one has run, once, with the deepest active node of
\* the chain; no other callback has run, and none runs before the pass is
\* through.
C9_CallbackSelection ==
    /\ Len(called) <= 1
    /\ pc # "done" => called = <<>>
    /\ (pc = "done" /\ chain # <<>> /\ ChainOwners # {}) =>
          /\ \E i \in ChainOwners :
                /\ \A j \in ChainOwners : j <= i
                /\ called = << [owner |-> chain[i], target |-> Last(chain)] >>
          /\ cmds[Last(chain)].active
          /\ \A d \in DescendantsOf(cmds, Last(chain)) : ~cmds[d].active

\* foo's callback has run with foo/bar; the global fallback has not.
C9_Witness ==
    /\ pc = "done"
    /\ Len(chain) = 3
    /\ cmds[chain[2]].callback
    /\ ~cmds[chain[3]].callback
    /\ gCallback
    /\ called = << [owner |-> chain[2], target |-> chain[3]] >>

\* C10: the global fallback runs, with the deepest chain node, if and only
\* if it is registered and no chain node has a callback; with neither,
\* nothing runs: [prog] without callbacks leaves the root active, every
\* other node inactive and no callback run.
C10_GlobalFallback ==
    (pc = "done" /\ chain # <<>>) =>
        /\ (\E i \in 1..Len(called) : called[i].owner = GlobalCb)
              <=> (gCallback /\ ChainOwners = {})
        /\ (gCallback /\ ChainOwners = {}) =>
              called = << [owner |-> GlobalCb, target |-> Last(chain)] >>
        /\ (~gCallback /\ ChainOwners = {}) => called = <<>>
        /\ (entry.c = Global /\ entry.args = <<"prog">>) =>
              /\ cmds[Global].active
              /\ \A n \in Allocated : ~cmds[n].active
              /\ Callbacks(cmds, gCallback) = 0 => called = <<>>

\* The fallback has run with foo, although bar, off the chain, has a
\* callback of its own.
C10_Witness ==
    /\ pc = "done"
    /\ Len(chain) = 2
    /\ gCallback
    /\ \E n \in Allocated : cmds[n].callback /\ n \notin Range(chain)
    /\ called = << [owner |-> GlobalCb, target |-> chain[2]] >>

(***************************************************************************)
(* C11: recursive arguments.                                               *)
(***************************************************************************)
\* The pass over ParentArgsStream went root, foo, foo/bar, with test0
\* defined at the root, test1 at foo and test2 at foo/bar.
ParentArgsPass ==
    /\ pc \in {"dispatch", "done"}
    /\ entry = [c |-> Global, args |-> ParentArgsStream]
    /\ Len(chain) = 3
    /\ cmds[chain[2]].name = "foo"
    /\ cmds[chain[3]].name = "bar"
    /\ cmds[chain[1]].flags.defined = {"test0"}
    /\ cmds[chain[2]].flags.defined = {"test1"}
    /\ cmds[chain[3]].flags.defined = {"test2"}

\* The flags.Parse calls a step at N owes: N's own, then, with recursion
\* enabled on N, one per ancestor that has a flag set, nearest first.
OwnParse(N, before) ==
    IF ~cmds[N].flags.nil /\ Len(before) > 0 THEN << <<N, before>> >> ELSE <<>>
AncestorsWithFlags(N) ==
    SelectSeq(AncestorsOf(cmds, N, MaxChain), LAMBDA a : ~cmds[a].flags.nil)
AncestorParses(N, before) ==
    [i \in 1..Len(AncestorsWithFlags(N)) |-> <<AncestorsWithFlags(N)[i], before>>]

\* C11: a step of the pass at a node N with recursion enabled and a
\* non-empty segment has that same segment parsed by the flag set of every
\* ancestor of N, nearest first up to the root; a step at a node without
\* recursion leaves every other node's flag set alone.  Over
\* ParentArgsStream with recursion on foo/bar, test0, test1 and test2 read
\* 10, 11 and 12; without recursion test0 and test1 keep their defaults.
C11_RecursiveArguments ==
    /\ [](ParentArgsPass =>
            IF cmds[chain[3]].recurseArguments
            THEN /\ cmds[chain[1]].flags.val["test0"] = 10
                 /\ cmds[chain[2]].flags.val["test1"] = 11
                 /\ cmds[chain[3]].flags.val["test2"] = 12
            ELSE /\ cmds[chain[1]].flags.val["test0"] = DefaultOf("test0")
                 /\ cmds[chain[2]].flags.val["test1"] = DefaultOf("test1")
                 /\ cmds[chain[3]].flags.val["test2"] = 12)
    /\ [][(pc = "loop" /\ pc' # "exited") =>
             LET before == ArgsBeforeSubCmd(cmds, cmd, arguments)
             IN  IF cmds[cmd].recurseArguments /\ Len(before) > 0
                 THEN /\ parsed' = parsed \o OwnParse(cmd, before) \o AncestorParses(cmd, before)
                      /\ \A a \in Range(AncestorsWithFlags(cmd)) :
                            cmds'[a].flags = PflagParse(cmds[a].flags, before).fs
                 ELSE /\ parsed' = parsed \o OwnParse(cmd, before)
                      /\ \A a \in Ids \ {cmd} : cmds'[a].flags = cmds[a].flags]_vars

\* TestParentArgs: foo/bar's segment went to foo/bar, then foo, then the root.
C11_Witness ==
    /\ ParentArgsPass
    /\ cmds[chain[3]].recurseArguments
    /\ Len(parsed) = 4
    /\ parsed[2][1] = chain[3]
    /\ parsed[3] = <<chain[2], parsed[2][2]>>
    /\ parsed[4] = <<chain[1], parsed[2][2]>>
    /\ cmds[chain[1]].flags.val["test0"] = 10
    /\ cmds[chain[2]].flags.val["test1"] = 11

(***************************************************************************)
(* C12-C13: the deprecation notice and the output sink.                    *)
(***************************************************************************)
NoticesOf(n) == {i \in 1..Len(out) : out[i].kind = "deprecated" /\ out[i].node = n}

\* C12: after a pass that did not end in help, every deprecated node of the
\* chain has exactly one deprecation notice in the output, written to its
\* sink, whether or not it has a flag set or options in its segment; it is
\* active all the same.
C12_DeprecationNotice ==
    PassCompleted =>
        \A n \in Range(chain) :
            cmds[n].deprecated =>
                /\ Cardinality(NoticesOf(n)) = 1
                /\ \A i \in NoticesOf(n) : out[i].sink = OutOf(cmds, n)
                /\ cmds[n].active

\* The sink the nearest-ancestor rule gives c: its own, else that of the
\* nearest ancestor that has one, else standard error.
NearestSink(cs, c) ==
    LET line == <<c>> \o AncestorsOf(cs, c, MaxChain)
        set == {i \in 1..Len(line) : cs[line[i]].output # "nil"}
    IN  IF set = {} THEN Stderr
        ELSE cs[line[CHOOSE i \in set : \A j \in set : i <= j]].output

\* C13: the usage and deprecation text of a node is written to the node's
\* own sink if it has one, else to the sink of its nearest ancestor that has
\* one, else to standard error.
C13_NearestAncestorSink ==
    \A i \in 1..Len(out) :
        (out[i].kind \in {"usage", "deprecated"} /\ out[i].by \in {"defaultUsage", "Parse"})
            => out[i].sink = NearestSink(cmds, out[i].node)

(***************************************************************************)
(* C14: the entry guard of a standalone Parse.                             *)
(***************************************************************************)
\* The Parse call of the pass was made on a named command with a stream
\* that begins with another token.
GuardedEntry(e) ==
    /\ e.c # Nil
    /\ Len(e.args) > 0
    /\ cmds[e.c].name # ""
    /\ cmds[e.c].name # e.args[1]

\* C14: Parse on a named command with a stream whose first token is not that
\* name changes nothing: no command is marked active, no flag set is parsed
\* or modified, nothing is written and no callback runs.  With an empty name
\* or the name as first token, the command is marked active and the first
\* token is consumed.
C14_EntryGuard ==
    /\ []((pc # "config" /\ GuardedEntry(entry)) =>
            /\ pc = "done"
            /\ ActiveSet(cmds) = {}
            /\ parsed = <<>>
            /\ out = <<>>
            /\ called = <<>>
            /\ status = NoExit)
    /\ [][(pc = "config" /\ pc' # "config" /\ Len(entry'.args) > 0) =>
             IF GuardedEntry(entry')
             THEN cmds' = cmds
             ELSE /\ cmds'[entry'.c].active
                  /\ arguments' = Tail(entry'.args)
                  /\ cmd' = entry'.c
                  /\ pc' = "loop"
                  /\ \A n \in Ids \ {entry'.c} : cmds'[n] = cmds[n]]_vars

\* bar, holding a flag set and a callback, was handed [foo, --test1, 11].
C14_Witness ==
    /\ pc = "done"
    /\ GuardedEntry(entry)
    /\ entry.args = <<"foo", "--test1", "11">>
    /\ ~cmds[entry.c].flags.nil
    /\ cmds[entry.c].flags.val["test1"] = DefaultOf("test1")
    /\ cmds[entry.c].callback
    /\ gCallback

(***************************************************************************)
(* C15-C16: the package-level AddCommand and Reset.                        *)
(***************************************************************************)
\* C15: the package-level AddCommand(n), for a named n whose name is not
\* yet registered at top level, adds n to the global register: the
\* package-level Lookup of its name returns n, the children of the global
\* register end with n, and n's own children are unchanged.
C15_PkgAddCommand ==
    [][(/\ ret'.op = "pkg.AddCommand"
        /\ ret'.n # Nil
        /\ cmds[ret'.n].name # ""
        /\ IndexOfName(cmds, Global, cmds[ret'.n].name) = 0)
          => (/\ ret'.err = ""
              /\ Lookup(cmds', Global, cmds[ret'.n].name) = ret'.n
              /\ cmds'[Global].commands = Append(cmds[Global].commands, ret'.n)
              /\ cmds'[ret'.n].commands = cmds[ret'.n].commands)]_vars

\* C16: Reset returns the global register to its initial state: the root
\* has no children (Lookup of every name returns none, Active of every name
\* is false), is inactive, has an empty description, no flag set and no
\* output override, and the usage function is the default again.
C16_Reset ==
    [][ResetCall =>
          /\ cmds'[Global].commands = <<>>
          /\ \A name \in CmdNames \cup {""} :
                /\ Lookup(cmds', Global, name) = Nil
                /\ ~Active(cmds', Global, name)
          /\ ~IsActive(cmds', Global)
          /\ GetDescription(cmds', Global) = ""
          /\ cmds'[Global].flags.nil
          /\ cmds'[Global].output = "nil"
          /\ ~cmds'[Global].Usage
          /\ Usage' = "defaultUsage"
          /\ OutOf(cmds', Global) = Stderr]_vars

\* The register is empty again after a run that registered foo, set an
\* attribute and parsed [prog, foo, --test1, 11] with a root flag set.
C16_Witness ==
    /\ pc = "config"
    /\ entry.c = Global
    /\ entry.args = <<"prog", "foo", "--test1", "11">>
    /\ Len(chain) = 2
    /\ nattr = 1
    /\ cmds[chain[2]].active
    /\ cmds[chain[2]].flags.val["test1"] = 11
    /\ cmds[Global] = ZeroCommand
    /\ Usage = "defaultUsage"

(***************************************************************************)
(* C17-C19: the active flag.                                               *)
(***************************************************************************)
\* No Reset has been called: every command created is still in the tree of
\* the global register.
NeverReset == Allocated \subseteq DescendantsOf(cmds, Global)

\* C17: after any sequence of passes over the same tree, without Reset, the
\* active named commands are exactly those matched by the latest pass.
C17_ActiveIffMatchedLatest ==
    (pc = "done" /\ NeverReset) =>
        \A n \in Allocated : cmds[n].active <=> n \in Range(chain)

\* C18: no step of Parse turns an active flag from true to false.
C18_ActiveMonotonic ==
    [][pc' # "config" => \A n \in Ids : cmds[n].active => cmds'[n].active]_vars

\* A later pass is under way over a tree in which an earlier pass left a
\* command active that this pass has not matched.
C18_Witness ==
    /\ pc = "loop"
    /\ NeverReset
    /\ Len(chain) = 1
    /\ \E n \in ActiveSet(cmds) : n \notin Range(chain) \cup {cmd}

\* C19: during and after a pass that starts from an all-inactive tree, every
\* active command other than the one Parse was called on has an active
\* parent, and at the step that activated it its name was a token of the
\* parent's remaining stream.
C19_ActiveUnderActiveParent ==
    /\ [](pc # "config" =>
            \A n \in ActiveSet(cmds) \ {entry.c} :
                \E p \in ActiveSet(cmds) : n \in ChildrenOf(cmds, p))
    /\ [][pc = "loop" =>
             \A n \in Ids :
                 (~cmds[n].active /\ cmds'[n].active) =>
                     /\ n \in ChildrenOf(cmds, cmd)
                     /\ cmds[cmd].active
                     /\ cmds[n].name \in Range(arguments)]_vars

\* foo/bar is active under the active foo, which is active under the root.
C19_Witness ==
    /\ pc = "done"
    /\ Len(chain) = 3
    /\ entry.c = Global
    /\ cmds[chain[3]].name = "bar"
    /\ ActiveSet(cmds) = Range(chain)
    /\ chain[3] \in ChildrenOf(cmds, chain[2])
    /\ chain[2] \in ChildrenOf(cmds, Global)

(***************************************************************************)
(* C20: hidden and deprecated do not influence parsing.                    *)
(***************************************************************************)
\* The tree with every hidden and deprecated mark removed.
Unmark(cs) == [n \in DOMAIN cs |-> [cs[n] EXCEPT !.hidden = FALSE, !.deprecated = FALSE]]

\* C20: every step of a pass does to the marked tree what it does to the
\* same tree without its hidden and deprecated marks: the same entry
\* decision, the same flags.Parse calls with the same resulting flag values,
\* the same command activated next with the same remaining stream, the same
\* exit; hence the same active commands and flag values after Parse.  Only
\* what is written differs.
C20_MarksDoNotInfluenceParsing ==
    /\ [][(pc = "config" /\ pc' # "config") =>
             ((pc' = "done") <=> ParseReturnsEarly(Unmark(cmds), entry'.c, entry'.args))]_vars
    /\ [][pc = "loop" =>
             LET r == LoopStep(cmds, cmd, arguments)
                 u == LoopStep(Unmark(cmds), cmd, arguments)
             IN  /\ Unmark(r.cmds) = u.cmds
                 /\ r.parses = u.parses
                 /\ r.exit = u.exit
                 /\ r.subCmd = u.subCmd
                 /\ r.arguments = u.arguments
                 /\ cmds' = r.cmds
                 /\ ActiveSet(cmds') = ActiveSet(u.cmds)
                 /\ \A n \in Ids : cmds'[n].flags = u.cmds[n].flags]_vars

\* A deprecated (and so hidden) foo was activated, read --test1 11 and got
\* its notice, and the pass went on to bar.
C20_Witness ==
    /\ pc = "done"
    /\ Len(chain) = 3
    /\ cmds[chain[2]].deprecated
    /\ cmds[chain[2]].hidden
    /\ cmds[chain[2]].active
    /\ cmds[chain[2]].flags.val["test1"] = 11
    /\ NoticesOf(chain[2]) # {}
    /\ cmds[chain[3]].active

(***************************************************************************)
(* C21: the command table of the usage text.                               *)
(***************************************************************************)
\* The positions of the children of c that are not hidden.
VisibleIndexes(c) == {k \in 1..Len(cmds[c].commands) : ~cmds[cmds[c].commands[k]].hidden}

\* C21: the command table of a usage text written for c has one line per
\* child of c that is not hidden, in registration order, and none for a
\* hidden or deprecated child; the step that builds and writes the text
\* changes no attribute and no active flag of any command.
C21_UsageListsVisibleChildren ==
    /\ [](\A i \in 1..Len(out) :
            (out[i].kind = "usage" /\ out[i].by = "defaultUsage") =>
                LET c == out[i].node
                    t == out[i].text.commands
                IN  /\ Len(t) = Cardinality(VisibleIndexes(c))
                    /\ \A k \in VisibleIndexes(c) :
                          t[Cardinality({m \in VisibleIndexes(c) : m <= k})] =
                              [name |-> cmds[cmds[c].commands[k]].name,
                               usage |-> cmds[cmds[c].commands[k]].usage]
                    /\ \A k \in 1..Len(cmds[c].commands) :
                          (cmds[cmds[c].commands[k]].hidden \/ cmds[cmds[c].commands[k]].deprecated)
                              => \A j \in 1..Len(t) : t[j].name # cmds[cmds[c].commands[k]].name)
    /\ [][(pc = "loop" /\ pc' = "exited" /\ status' = 0) =>
             \A n \in Ids : [cmds'[n] EXCEPT !.flags = NoFlags] = [cmds[n] EXCEPT !.flags = NoFlags]]_vars

\* The usage of the root, which has a hidden first child and a visible
\* second one, lists the second only.
C21_Witness ==
    /\ pc = "exited"
    /\ status = 0
    /\ Last(out).kind = "usage"
    /\ Last(out).by = "defaultUsage"
    /\ Last(out).node = Global
    /\ Len(cmds[Global].commands) = 2
    /\ cmds[cmds[Global].commands[1]].hidden
    /\ Len(Last(out).text.commands) = 1
    /\ Last(out).text.commands[1].name = cmds[cmds[Global].commands[2]].name

(***************************************************************************)
(* C22-C23: the boundary scan and the matched name.                        *)
(***************************************************************************)
\* The positions of the remaining stream whose token is the name of a
\* direct child of the current command.
ChildNameIndexes ==
    {i \in 1..Len(arguments) : \E k \in ChildrenOf(cmds, cmd) : cmds[k].name = arguments[i]}

\* C22: at each level the boundary is the lowest position of the remaining
\* stream whose token equals the name of a direct child, whatever the
\* registration order and whatever precedes the token (an option that takes
\* a value included): the tokens before it are what the current command's
\* flag set parses, and the child of that name is entered; with no such
\* token the whole stream is the segment and the descent ends.
C22_BoundaryScan ==
    [][pc = "loop" =>
          IF ChildNameIndexes = {}
          THEN /\ pc' # "loop"
               /\ (~cmds[cmd].flags.nil /\ Len(arguments) > 0)
                     => parsed' = Append(parsed, <<cmd, arguments>>)
          ELSE LET i == CHOOSE i \in ChildNameIndexes : \A j \in ChildNameIndexes : i <= j
               IN  /\ (~cmds[cmd].flags.nil /\ i > 1)
                         => parsed' = Append(parsed, <<cmd, SubSeq(arguments, 1, i - 1)>>)
                   /\ (cmds[cmd].flags.nil \/ i = 1) => parsed' = parsed
                   /\ pc' \in {"loop", "exited"}
                   /\ pc' = "loop" =>
                         /\ cmd' \in ChildrenOf(cmds, cmd)
                         /\ cmds[cmd'].name = arguments[i]
                         /\ cmds'[cmd'].active]_vars

\* [prog, --test1, foo]: foo, in the value position of the root's --test1,
\* was taken as the boundary; the root parsed [--test1] alone and test1
\* kept its default.
C22_Witness ==
    /\ pc = "done"
    /\ entry = [c |-> Global, args |-> <<"prog", "--test1", "foo">>]
    /\ "test1" \in cmds[Global].flags.defined
    /\ parsed[1] = <<Global, <<"--test1">> >>
    /\ cmds[Global].flags.val["test1"] = DefaultOf("test1")
    /\ Len(chain) = 2
    /\ cmds[chain[2]].name = "foo"
    /\ cmds[chain[2]].active

\* C23: a matched child consumes its name before it scans for its own
\* children, so one token activates at most one command: after a pass that
\* started with no command active, the active commands other than the one
\* Parse was called on are no more than the tokens after the first, and
\* [prog, foo] over foo with a child foo leaves foo/foo inactive.
C23_NameConsumedOnce ==
    PassCompleted =>
        /\ Cardinality(ActiveSet(cmds) \ {entry.c}) <= Len(entry.args) - 1
        /\ entry.args = <<"prog", "foo">> => Len(chain) <= 2

(***************************************************************************)
(* C24: the command structure.                                             *)
(***************************************************************************)
\* How often n occurs in the children sequences of all commands.
Occurrences(n) ==
    Cardinality({<<p, i>> \in Ids \X (1..MaxNodes + 1) :
                    i <= Len(cmds[p].commands) /\ cmds[p].commands[i] = n})

\* C24: after any sequence of registration calls the structure is a tree:
\* every command occurs at most once in the children of at most one parent,
\* and no command is its own ancestor.
C24_StructureIsTree ==
    \A n \in Ids :
        /\ Occurrences(n) <= 1
        /\ n \notin DescendantsOf(cmds, n)

(***************************************************************************)
(* C26, C28: the top-level command after Parse; usage without a flag set.  *)
(***************************************************************************)
\* C26: once Parse has been called on a command with the empty name and has
\* returned, that command is active, whatever the token stream, the empty
\* one included.
C26_TopLevelActiveAfterParse ==
    (pc = "done" /\ entry.c # Nil /\ cmds[entry.c].name = "") => IsActive(cmds, entry.c)

\* C28: CommandUsage produces its text without failing for a command
\* registered without a flag set, the flag table being omitted.
C28_UsageWithoutFlagSet ==
    (ret.op = "Cmd" /\ ret.err = "" /\ cmds[ret.n].flags.nil) =>
        /\ ~CommandUsage(cmds, ret.n).panic
        /\ CommandUsage(cmds, ret.n).flags = {}

(***************************************************************************)
(* C25: termination.                                                       *)
(***************************************************************************)
\* C25: over every command structure the registration operations can build
\* and every token stream, a Parse call that has entered its loop returns.
C25_ParseTerminates == (pc = "loop") ~> (pc = "done")

====
